---- MODULE Spec2Model ----
(***************************************************************************)
(* Model of the parallel paginated-collection loader of t3api_utils.        *)
(*                                                                         *)
(*   Spec    the thread-pool loader parallel_load_collection               *)
(*           (t3api_utils/collection/utils.py) together with the flattener *)
(*           extract_data / load_collection.                               *)
(*   SpecRL  the RateLimiter of t3api_utils.api.parallel under concurrent  *)
(*           acquire / acquire_async callers; SpecRLLive adds fairness.    *)
(*   SpecCoop, SpecAll, SpecTwo  the cooperative loader, both loaders,     *)
(*           and two concurrent invocations; SpecAllLive adds fairness.    *)
(*   SpecFlat  extract_data on its own.                                    *)
(*   SpecHTTP  request_json / arequest_json (t3api_utils/http/utils.py)    *)
(*           under a RetryPolicy; SpecHTTPLive adds fairness.              *)
(*   SpecClient  T3APIClient / AsyncT3APIClient (t3api_utils/api/client.py)*)
(*           over sequences of calls.                                      *)
(*                                                                         *)
(* Python's None is modelled by the empty sequence and a present value v   *)
(* by <<v>>, so that optional values of any type compare without error.    *)
(* A Python list index i is the TLA+ sequence index i + 1.                 *)
(***************************************************************************)
EXTENDS Integers, Sequences, FiniteSets, Bags, TLC

\* ------------------------------------------------------------------ bounds
MaxTotal == 5
MaxPages == 4
MaxPageSize == 2
MaxWorkers == 2
NumCallers == 2
MaxTime == 5
TicksPerSecond == 4
MaxRate == 2
MaxCalls == 3
MaxFlatPages == 2
MaxFlatLen == 2
MaxBatch == 2
MaxTwoTotal == 2
MaxAttempts == 3
MaxBackoff == 2
MaxOps == 3

\* ----------------------------------------------------------- optional values
None == << >>
Some(v) == << v >>
IsNone(o) == o = << >>
Get(o) == o[1]

Min(a, b) == IF a <= b THEN a ELSE b
Max(a, b) == IF a >= b THEN a ELSE b

\* ------------------------------------------------------------------- state
VARIABLES
    srvTotal,        \* number of records the server holds
    srvPageSize,     \* page size the server applies
    shape,           \* which pagination attributes its responses expose
    max_workers,     \* the max_workers argument (None or a positive int)
    pc,              \* position of the calling thread in parallel_load_collection
    error,           \* the exception that left the call, "none" while there is none
    first_response,  \* None before the seed call returned
    num_pages,       \* None before it is computed
    responses,       \* the page array: a sequence of optional responses
    submitted,       \* page_number values handed to executor.submit, in order
    fstate,          \* page_number -> state of its future
    fresult,         \* page_number -> what fetch_page returned (None if nothing)
    yielded,         \* futures as_completed has yielded, in the order it yielded them
    calls,           \* bag of the page numbers the fetch callable was invoked for
    result,          \* None, or Some(list) once the loader returned
    flat             \* None, or Some(list) once load_collection returned

varsL == << srvTotal, srvPageSize, shape, max_workers, pc, error, first_response,
            num_pages, responses, submitted, fstate, fresult, yielded, calls,
            result, flat >>

VARIABLES
    rate,               \* requests per second the limiter was constructed with, or None
    now,                \* the clock, in ticks
    last_request_time,  \* time of the previous acquisition, None before the first
    lock,               \* the caller inside the limiter's critical section, or None
    cpc,                \* caller -> position in acquire / acquire_async
    mode,               \* caller -> the variant it is executing, "none" when idle
    wakeAt,             \* caller -> end of its sleep
    acquired,           \* number of acquire calls that have returned
    gap                 \* time between the last two acquisitions, None before the second

varsRL == << rate, now, last_request_time, lock, cpc, mode, wakeAt, acquired, gap >>

VARIABLES
    variant,       \* the loader variant running: "thread" or "coop"
    batch_size,    \* the batch_size argument of the cooperative variant, or None
    rate_limit,    \* the rate_limit argument of the cooperative variant, or None
    limiters,      \* the RateLimiter objects this invocation constructed: <<id, rate>>
    acquires,      \* bag of <<limiter id, page>>, one per acquire_async call made
    limiterCount,  \* number of RateLimiter objects constructed in the process
    other          \* the state of a second, concurrent invocation while this one runs

varsE == << variant, batch_size, rate_limit, limiters, acquires, limiterCount, other >>

VARIABLES
    klass,            \* the client class: "T3APIClient" or "AsyncT3APIClient"
    authenticated,    \* self._authenticated
    access_token,     \* self._access_token, None or a token
    headers,          \* the Authorization header of self._client, None when absent
    op,               \* the call in progress or last made on the client, "none" before any
    hpc,              \* position in it: "idle", "loop" (in request_json), "back", "returned", "raised"
    policy,           \* the RetryPolicy in force
    method,           \* the method argument of request_json
    expected_status,  \* the set exp of accepted status codes
    attempt,          \* request_json's attempt counter
    requests,         \* number of HTTP requests the call has issued
    lastGot,          \* what the latest request gave: None, or an exception or a response
    sleeps,           \* the backoff sleeps of the call: [before |-> attempt to come, delay |-> base]
    slept,            \* duration of the latest sleep, in fifths of the delay unit, or None
    rjOutcome,        \* how request_json ended: None, or a return value or a T3HTTPError
    outcome,          \* how the call on the client ended, None while it has not
    before,           \* <<authenticated, access_token, headers>> when the call began
    opCount           \* number of calls made on the client

varsH == << klass, authenticated, access_token, headers, op, hpc, policy, method,
            expected_status, attempt, requests, lastGot, sleeps, slept, rjOutcome,
            outcome, before, opCount >>

vars == << varsL, varsRL, varsE, varsH >>

Callers == 1..NumCallers

Shapes == {"full", "no_total", "len_only", "no_page_size"}

\* What later pages may report differently from the seed: <<d_total, d_page_size>>.
Drifts == { <<0, 0>>, <<1, 0>>, <<0, 1>> }

\* ---------------------------------------------------- the fetch callable
\* Number of records on page p (1-based) of a collection of srvTotal records.
PageLen(p) == Max(0, Min(srvPageSize, srvTotal - (p - 1) * srvPageSize))

\* The records of page p: record k of the collection is the integer k.
PageData(p) == [i \in 1..PageLen(p) |-> (p - 1) * srvPageSize + i]

\* The response the fetch callable returns for page p, reporting a total and
\* a page size that differ by d from the collection's.
ServerResponse(p, d) ==
    [ page      |-> p,
      total     |-> IF shape = "no_total" THEN None ELSE Some(srvTotal + d[1]),
      page_size |-> IF shape \in {"full", "no_total"}
                    THEN Some(srvPageSize + d[2]) ELSE None,
      len       |-> IF shape = "no_page_size" THEN None ELSE Some(PageLen(p)),
      data      |-> PageData(p) ]

\* ------------------------------------------- parallel_load_collection helpers
\* `not hasattr(first_response, "total") or first_response.total is None`
MissingTotal(r) == IsNone(r.total)

\* Variant: a default page size stands in when none can be derived.
ResolvePageSizeDefault(r) ==
    IF ~IsNone(r.page_size) THEN r.page_size
    ELSE IF ~IsNone(r.len) THEN r.len
    ELSE Some(1)

\* getattr(first_response, "page_size", None), then the len() fallback.
ResolvePageSize(r) ==
    IF ~IsNone(r.page_size) THEN r.page_size
    ELSE IF ~IsNone(r.len) THEN r.len
    ELSE None

\* `page_size is None or page_size == 0`
BadPageSize(ps) == IsNone(ps) \/ Get(ps) = 0

\* num_pages = (total + page_size - 1) // page_size
NumPages(total, page_size) == (total + page_size - 1) \div page_size

\* [None] * num_pages
NoneList(n) == [i \in 1..n |-> None]

\* Variant: range(1, num_pages - 1), which leaves the last page out.
PageNumbersShort(n) == 1..(n - 2)

\* range(1, num_pages): the page_number values submitted to the pool.
PageNumbers(n) == 1..(n - 1)

\* Variant: page=page_number, the list index taken for the page number.
PageArgOffByOne(page_number) == page_number

\* The page argument fetch_page passes for page_number: page=page_number + 1.
PageArg(page_number) == page_number + 1

\* Variant: the response goes to the first free slot, in completion order.
StoreAtNextFree(rs, page_number, response) ==
    LET free == {k \in DOMAIN rs : IsNone(rs[k])}
    IN  IF free = {} THEN rs
        ELSE [rs EXCEPT ![CHOOSE k \in free : \A m \in free : k <= m] = Some(response)]

\* responses[page_number] = response  (list index page_number)
StoreAt(rs, page_number, response) ==
    [rs EXCEPT ![page_number + 1] = Some(response)]

\* Variant: the pool starts a thread for every unit submitted.
PoolSizeUnbounded == MaxTotal + 1

\* Size of the worker pool: max_workers, or the executor's default for None,
\* which the model takes to be no bound at all.
PoolSize == IF IsNone(max_workers) THEN MaxTotal + 1 ELSE Get(max_workers)

RECURSIVE NotNone(_)
\* [r for r in responses if r is not None]
NotNone(rs) ==
    IF rs = << >> THEN << >>
    ELSE IF IsNone(Head(rs)) THEN NotNone(Tail(rs))
    ELSE << Get(Head(rs)) >> \o NotNone(Tail(rs))

RECURSIVE extract_data_reversed(_)
\* Variant: later pages are put in front of earlier ones.
extract_data_reversed(rs) ==
    IF rs = << >> THEN << >> ELSE extract_data_reversed(Tail(rs)) \o Head(rs).data

RECURSIVE extract_data(_)
\* [item for response in responses for item in response.data]
extract_data(rs) ==
    IF rs = << >> THEN << >> ELSE Head(rs).data \o extract_data(Tail(rs))

Range(seq) == {seq[k] : k \in 1..Len(seq)}

Running == {i \in DOMAIN fstate : fstate[i] = "running"}
Finished == {i \in DOMAIN fstate : fstate[i] \in {"returned", "raised"}}

\* First pending future in submission order: the pool's work queue is FIFO.
NextPending ==
    LET idx == {k \in 1..Len(submitted) : fstate[submitted[k]] = "pending"}
    IN  IF idx = {} THEN None
        ELSE Some(submitted[CHOOSE k \in idx : \A m \in idx : k <= m])

Unsubmitted == PageNumbers(Get(num_pages)) \ Range(submitted)

\* ------------------------------------------------------------- loader steps
\* Variant: a failed seed call is made again.
SeedFetchRetry ==
    /\ pc = "seeding"
    /\ calls' = calls (+) SetToBag({1})
    /\ \/ /\ first_response' = Some(ServerResponse(1, <<0, 0>>))
          /\ pc' = "validating"
       \/ /\ pc' = "seeding"
          /\ first_response' = first_response
    /\ UNCHANGED << srvTotal, srvPageSize, shape, max_workers, error, num_pages,
                    responses, submitted, fstate, fresult, yielded, result, flat >>
    /\ UNCHANGED varsRL
    /\ UNCHANGED varsH
    /\ UNCHANGED varsE

\* first_response = method(*args, **kwargs): the seed call, made by the caller
\* without a page argument, which the fetch callable serves as page 1.
SeedFetch ==
    /\ pc = "seeding"
    /\ calls' = calls (+) SetToBag({1})
    /\ \/ /\ first_response' = Some(ServerResponse(1, <<0, 0>>))
          /\ pc' = "validating"
          /\ error' = error
       \/ /\ pc' = "failed"
          /\ error' = "FetchError"
          /\ first_response' = first_response
    /\ UNCHANGED << srvTotal, srvPageSize, shape, max_workers, num_pages, responses,
                    submitted, fstate, fresult, yielded, result, flat >>
    /\ UNCHANGED varsRL
    /\ UNCHANGED varsH
    /\ UNCHANGED varsE

\* The checks on the seed response, the page arithmetic and the allocation of
\* the page array; responses[0] = first_response raises IndexError on an empty
\* array.
Validate ==
    /\ pc = "validating"
    /\ LET r  == Get(first_response)
           ps == ResolvePageSize(r)
       IN  IF MissingTotal(r) \/ BadPageSize(ps)
           THEN /\ pc' = "failed"
                /\ error' = "ValueError"
                /\ UNCHANGED << num_pages, responses >>
           ELSE LET n == NumPages(Get(r.total), Get(ps))
                IN  /\ num_pages' = Some(n)
                    /\ IF n >= 1
                       THEN /\ responses' = [NoneList(n) EXCEPT ![1] = Some(r)]
                            /\ pc' = "dispatching"
                            /\ error' = error
                       ELSE /\ responses' = NoneList(n)
                            /\ pc' = "failed"
                            /\ error' = "IndexError"
    /\ UNCHANGED << srvTotal, srvPageSize, shape, max_workers, first_response,
                    submitted, fstate, fresult, yielded, calls, result, flat >>
    /\ UNCHANGED varsRL
    /\ UNCHANGED varsH
    /\ UNCHANGED varsE

\* executor.submit(fetch_page, i) for the next i of range(1, num_pages).
Submit ==
    /\ pc = "dispatching"
    /\ Unsubmitted # {}
    /\ LET i == CHOOSE k \in Unsubmitted : \A m \in Unsubmitted : k <= m
       IN  /\ submitted' = Append(submitted, i)
           /\ fstate' = (i :> "pending") @@ fstate
           /\ fresult' = (i :> None) @@ fresult
    /\ UNCHANGED << srvTotal, srvPageSize, shape, max_workers, pc, error,
                    first_response, num_pages, responses, yielded, calls, result, flat >>
    /\ UNCHANGED varsRL
    /\ UNCHANGED varsH
    /\ UNCHANGED varsE

\* The list of futures is complete: the caller enters the as_completed loop.
BeginAwait ==
    /\ pc = "dispatching"
    /\ Unsubmitted = {}
    /\ pc' = "awaiting"
    /\ UNCHANGED << srvTotal, srvPageSize, shape, max_workers, error, first_response,
                    num_pages, responses, submitted, fstate, fresult, yielded, calls,
                    result, flat >>
    /\ UNCHANGED varsRL
    /\ UNCHANGED varsH
    /\ UNCHANGED varsE

\* A free worker takes the oldest queued unit and calls
\* method(*args, **kwargs, page=page_number + 1).
StartFetch ==
    /\ ~IsNone(NextPending)
    /\ Cardinality(Running) < PoolSize
    /\ LET i == Get(NextPending)
       IN  /\ fstate' = [fstate EXCEPT ![i] = "running"]
           /\ calls' = calls (+) SetToBag({PageArg(i)})
    /\ UNCHANGED << srvTotal, srvPageSize, shape, max_workers, pc, error,
                    first_response, num_pages, responses, submitted, fresult,
                    yielded, result, flat >>
    /\ UNCHANGED varsRL
    /\ UNCHANGED varsH
    /\ UNCHANGED varsE

\* Variant: a unit whose fetch raised is queued again.
FinishFetchRetry(i) ==
    /\ i \in DOMAIN fstate
    /\ fstate[i] = "running"
    /\ \/ \E d \in Drifts :
            /\ fstate' = [fstate EXCEPT ![i] = "returned"]
            /\ fresult' = [fresult EXCEPT
                             ![i] = Some(<< i, ServerResponse(PageArg(i), d) >>)]
       \/ /\ fstate' = [fstate EXCEPT ![i] = "pending"]
          /\ fresult' = fresult
    /\ UNCHANGED << srvTotal, srvPageSize, shape, max_workers, pc, error,
                    first_response, num_pages, responses, submitted, yielded,
                    calls, result, flat >>
    /\ UNCHANGED varsRL
    /\ UNCHANGED varsH
    /\ UNCHANGED varsE

\* The fetch of unit i ends: fetch_page returns (page_number, response), or
\* the exception of method is stored in the future.
FinishFetch(i) ==
    /\ i \in DOMAIN fstate
    /\ fstate[i] = "running"
    /\ \/ \E d \in Drifts :
            /\ fstate' = [fstate EXCEPT ![i] = "returned"]
            /\ fresult' = [fresult EXCEPT
                             ![i] = Some(<< i, ServerResponse(PageArg(i), d) >>)]
       \/ /\ fstate' = [fstate EXCEPT ![i] = "raised"]
          /\ fresult' = fresult
    /\ UNCHANGED << srvTotal, srvPageSize, shape, max_workers, pc, error,
                    first_response, num_pages, responses, submitted, yielded,
                    calls, result, flat >>
    /\ UNCHANGED varsRL
    /\ UNCHANGED varsH
    /\ UNCHANGED varsE

\* Variant: a unit's exception is dropped and the loop goes on.
CollectSwallow(i) ==
    /\ pc = "awaiting"
    /\ i \in Finished \ Range(yielded)
    /\ yielded' = Append(yielded, i)
    /\ IF fstate[i] = "returned"
       THEN responses' = StoreAt(responses, Get(fresult[i])[1], Get(fresult[i])[2])
       ELSE responses' = responses
    /\ UNCHANGED << srvTotal, srvPageSize, shape, max_workers, pc, error,
                    first_response, num_pages, submitted, fstate, fresult, calls,
                    result, flat >>
    /\ UNCHANGED varsRL
    /\ UNCHANGED varsH
    /\ UNCHANGED varsE

\* Variant: the page count is derived again from every response collected.
CollectRederive(i) ==
    /\ pc = "awaiting"
    /\ i \in Finished \ Range(yielded)
    /\ yielded' = Append(yielded, i)
    /\ IF fstate[i] = "returned"
       THEN LET page_number == Get(fresult[i])[1]
                response    == Get(fresult[i])[2]
                ps          == ResolvePageSize(response)
            IN  /\ responses' = StoreAt(responses, page_number, response)
                /\ num_pages' = IF MissingTotal(response) \/ BadPageSize(ps)
                                THEN num_pages
                                ELSE Some(NumPages(Get(response.total), Get(ps)))
                /\ UNCHANGED << pc, error >>
       ELSE /\ pc' = "exiting"
            /\ error' = "FetchError"
            /\ UNCHANGED << responses, num_pages >>
    /\ UNCHANGED << srvTotal, srvPageSize, shape, max_workers, first_response,
                    submitted, fstate, fresult, calls, result, flat >>
    /\ UNCHANGED varsRL
    /\ UNCHANGED varsH
    /\ UNCHANGED varsE

\* as_completed yields the finished future i; future.result() returns the
\* pair, which is stored by its page_number, or re-raises the exception.
Collect(i) ==
    /\ pc = "awaiting"
    /\ i \in Finished \ Range(yielded)
    /\ yielded' = Append(yielded, i)
    /\ IF fstate[i] = "returned"
       THEN LET page_number == Get(fresult[i])[1]
                response    == Get(fresult[i])[2]
            IN  /\ responses' = StoreAt(responses, page_number, response)
                /\ UNCHANGED << pc, error >>
       ELSE /\ pc' = "exiting"
            /\ error' = "FetchError"
            /\ responses' = responses
    /\ UNCHANGED << srvTotal, srvPageSize, shape, max_workers, first_response,
                    num_pages, submitted, fstate, fresult, calls, result, flat >>
    /\ UNCHANGED varsRL
    /\ UNCHANGED varsH
    /\ UNCHANGED varsE

\* Variant: the wait for the units ends at a deadline, finished or not.
EndAwaitDeadline ==
    /\ pc = "awaiting"
    /\ pc' = "assembling"
    /\ UNCHANGED << srvTotal, srvPageSize, shape, max_workers, error, first_response,
                    num_pages, responses, submitted, fstate, fresult, yielded, calls,
                    result, flat >>
    /\ UNCHANGED varsRL
    /\ UNCHANGED varsH
    /\ UNCHANGED varsE

\* as_completed is exhausted; the with block ends with every unit finished.
EndAwait ==
    /\ pc = "awaiting"
    /\ Range(yielded) = DOMAIN fstate
    /\ pc' = "assembling"
    /\ UNCHANGED << srvTotal, srvPageSize, shape, max_workers, error, first_response,
                    num_pages, responses, submitted, fstate, fresult, yielded, calls,
                    result, flat >>
    /\ UNCHANGED varsRL
    /\ UNCHANGED varsH
    /\ UNCHANGED varsE

\* return [r for r in responses if r is not None]
Return ==
    /\ pc = "assembling"
    /\ result' = Some(NotNone(responses))
    /\ pc' = "done"
    /\ UNCHANGED << srvTotal, srvPageSize, shape, max_workers, error, first_response,
                    num_pages, responses, submitted, fstate, fresult, yielded, calls,
                    flat >>
    /\ UNCHANGED varsRL
    /\ UNCHANGED varsH
    /\ UNCHANGED varsE

\* Variant: shutdown(wait=False), the exception leaves at once.
ShutdownNoWait ==
    /\ pc = "exiting"
    /\ pc' = "failed"
    /\ UNCHANGED << srvTotal, srvPageSize, shape, max_workers, error, first_response,
                    num_pages, responses, submitted, fstate, fresult, yielded, calls,
                    result, flat >>
    /\ UNCHANGED varsRL
    /\ UNCHANGED varsH
    /\ UNCHANGED varsE

\* Variant: the exception is dropped at the end of the with block and the
\* pages that did arrive are returned.
ShutdownPartial ==
    /\ pc = "exiting"
    /\ Finished = DOMAIN fstate
    /\ pc' = "done"
    /\ result' = Some(NotNone(responses))
    /\ UNCHANGED << srvTotal, srvPageSize, shape, max_workers, error, first_response,
                    num_pages, responses, submitted, fstate, fresult, yielded, calls,
                    flat >>
    /\ UNCHANGED varsRL
    /\ UNCHANGED varsH
    /\ UNCHANGED varsE

\* An exception leaves the with block: ThreadPoolExecutor.__exit__ runs
\* shutdown(wait=True), which returns when every submitted unit has finished.
Shutdown ==
    /\ pc = "exiting"
    /\ Finished = DOMAIN fstate
    /\ pc' = "failed"
    /\ UNCHANGED << srvTotal, srvPageSize, shape, max_workers, error, first_response,
                    num_pages, responses, submitted, fstate, fresult, yielded, calls,
                    result, flat >>
    /\ UNCHANGED varsRL
    /\ UNCHANGED varsH
    /\ UNCHANGED varsE

\* load_collection: extract_data(responses=all_responses).
Flatten ==
    /\ pc = "done"
    /\ IsNone(flat)
    /\ flat' = Some(extract_data(Get(result)))
    /\ UNCHANGED << srvTotal, srvPageSize, shape, max_workers, pc, error,
                    first_response, num_pages, responses, submitted, fstate,
                    fresult, yielded, calls, result >>
    /\ UNCHANGED varsRL
    /\ UNCHANGED varsH
    /\ UNCHANGED varsE

InitL ==
    /\ srvTotal \in 0..MaxTotal
    /\ srvPageSize \in 0..MaxPageSize
    /\ srvPageSize > 0 => NumPages(srvTotal, srvPageSize) <= MaxPages
    /\ shape \in Shapes
    /\ max_workers \in {None} \cup {Some(w) : w \in 1..MaxWorkers}
    /\ pc = "seeding"
    /\ error = "none"
    /\ first_response = None
    /\ num_pages = None
    /\ responses = << >>
    /\ submitted = << >>
    /\ fstate = << >>
    /\ fresult = << >>
    /\ yielded = << >>
    /\ calls = EmptyBag
    /\ result = None
    /\ flat = None

NextL ==
    \/ SeedFetch
    \/ Validate
    \/ Submit
    \/ BeginAwait
    \/ StartFetch
    \/ \E i \in DOMAIN fstate : FinishFetch(i)
    \/ \E i \in DOMAIN fstate : Collect(i)
    \/ EndAwait
    \/ Return
    \/ Shutdown
    \/ Flatten

\* The loader of collection/utils.py uses no rate limiter.
IdleRL ==
    /\ rate = None
    /\ now = 0
    /\ last_request_time = None
    /\ lock = None
    /\ cpc = [c \in Callers |-> "idle"]
    /\ mode = [c \in Callers |-> "none"]
    /\ wakeAt = [c \in Callers |-> 0]
    /\ acquired = 0
    /\ gap = None

\* parallel_load_collection takes no batch size and no rate limit, and a
\* single invocation runs.
IdleE ==
    /\ variant = "thread"
    /\ batch_size = None
    /\ rate_limit = None
    /\ limiters = << >>
    /\ acquires = EmptyBag
    /\ limiterCount = 0
    /\ other = None

\* No client exists and no request is made.
IdleH ==
    /\ klass = "none"
    /\ authenticated = FALSE
    /\ access_token = None
    /\ headers = None
    /\ op = "none"
    /\ hpc = "idle"
    /\ policy = None
    /\ method = "none"
    /\ expected_status = {}
    /\ attempt = 0
    /\ requests = 0
    /\ lastGot = None
    /\ sleeps = << >>
    /\ slept = None
    /\ rjOutcome = None
    /\ outcome = None
    /\ before = None
    /\ opCount = 0

Init == InitL /\ IdleRL /\ IdleE /\ IdleH

Next == NextL

Spec == Init /\ [][Next]_vars

\* =============================================================== RateLimiter
\* The limiter throttles when it was given a rate above zero; a rate of None,
\* zero or below disables it.
ThrottledUnlessNone(r) == ~IsNone(r)

Throttled(r) == ~IsNone(r) /\ Get(r) > 0

\* The minimum spacing of acquisitions, 1 / rate seconds, in clock ticks.
MinInterval(r) == IF ~IsNone(r) /\ Get(r) > 0 THEN TicksPerSecond \div Get(r) ELSE 0

\* Variant: the wait is taken to be zero whenever an acquisition was made.
WaitNone(t, last) == 0

\* Variant: the computed delay is not clamped at zero.
WaitUnclamped(t, last) ==
    IF IsNone(last) THEN 0 ELSE MinInterval(rate) - (t - Get(last))

\* The delay before the next acquisition may pass at time t:
\* max(0, interval - time since the previous acquisition).
Wait(t, last) ==
    IF IsNone(last) THEN 0 ELSE Max(0, MinInterval(rate) - (t - Get(last)))

\* Variant: callers do not exclude each other.
LockIgnored == TRUE

\* The critical section around the shared timestamp is free.
LockFree == IsNone(lock)

\* Time passes.
Tick ==
    /\ now < MaxTime
    /\ now' = now + 1
    /\ UNCHANGED << rate, last_request_time, lock, cpc, mode, wakeAt, acquired, gap >>
    /\ UNCHANGED varsL
    /\ UNCHANGED varsH
    /\ UNCHANGED varsE

\* Caller c calls acquire() or acquire_async(): a disabled limiter returns at
\* once, a throttling one makes the caller queue for the critical section.
Call(c, m) ==
    /\ cpc[c] = "idle"
    /\ acquired < MaxCalls
    /\ IF Throttled(rate)
       THEN /\ cpc' = [cpc EXCEPT ![c] = "locking"]
            /\ mode' = [mode EXCEPT ![c] = m]
            /\ acquired' = acquired
       ELSE /\ acquired' = acquired + 1
            /\ UNCHANGED << cpc, mode >>
    /\ UNCHANGED << rate, now, last_request_time, lock, wakeAt, gap >>
    /\ UNCHANGED varsL
    /\ UNCHANGED varsH
    /\ UNCHANGED varsE

\* Caller c enters the critical section.
Lock(c) ==
    /\ cpc[c] = "locking"
    /\ LockFree
    /\ lock' = Some(c)
    /\ cpc' = [cpc EXCEPT ![c] = "locked"]
    /\ UNCHANGED << rate, now, last_request_time, mode, wakeAt, acquired, gap >>
    /\ UNCHANGED varsL
    /\ UNCHANGED varsH
    /\ UNCHANGED varsE

\* Inside the critical section: read the clock and the shared timestamp,
\* compute the delay and start sleeping for it.
Compute(c) ==
    /\ cpc[c] = "locked"
    /\ wakeAt' = [wakeAt EXCEPT ![c] = now + Wait(now, last_request_time)]
    /\ cpc' = [cpc EXCEPT ![c] = "sleeping"]
    /\ UNCHANGED << rate, now, last_request_time, lock, mode, acquired, gap >>
    /\ UNCHANGED varsL
    /\ UNCHANGED varsH
    /\ UNCHANGED varsE

\* The sleep is over (a sleep may last longer than asked): the caller stamps
\* the acquisition, leaves the critical section and returns.
Wake(c) ==
    /\ cpc[c] = "sleeping"
    /\ now >= wakeAt[c]
    /\ last_request_time' = Some(now)
    /\ gap' = IF IsNone(last_request_time) THEN gap ELSE Some(now - Get(last_request_time))
    /\ lock' = None
    /\ cpc' = [cpc EXCEPT ![c] = "idle"]
    /\ mode' = [mode EXCEPT ![c] = "none"]
    /\ wakeAt' = [wakeAt EXCEPT ![c] = 0]
    /\ acquired' = acquired + 1
    /\ UNCHANGED << rate, now >>
    /\ UNCHANGED varsL
    /\ UNCHANGED varsH
    /\ UNCHANGED varsE

Modes == {"acquire", "acquire_async"}

Rates == {None} \cup {Some(r) : r \in -1..MaxRate}

\* RateLimiter(rate): no acquisition made yet.
InitRL ==
    /\ rate \in Rates
    /\ now = 0
    /\ last_request_time = None
    /\ lock = None
    /\ cpc = [c \in Callers |-> "idle"]
    /\ mode = [c \in Callers |-> "none"]
    /\ wakeAt = [c \in Callers |-> 0]
    /\ acquired = 0
    /\ gap = None

\* No load is running while the limiter is exercised on its own.
IdleL ==
    /\ srvTotal = 0
    /\ srvPageSize = 0
    /\ shape = "full"
    /\ max_workers = None
    /\ pc = "idle"
    /\ error = "none"
    /\ first_response = None
    /\ num_pages = None
    /\ responses = << >>
    /\ submitted = << >>
    /\ fstate = << >>
    /\ fresult = << >>
    /\ yielded = << >>
    /\ calls = EmptyBag
    /\ result = None
    /\ flat = None

NextRL ==
    \/ Tick
    \/ \E c \in Callers, m \in Modes : Call(c, m)
    \/ \E c \in Callers : Lock(c)
    \/ \E c \in Callers : Compute(c)
    \/ \E c \in Callers : Wake(c)

\* A limiter under concurrent callers, with no load in progress.
InitLimiter == InitRL /\ IdleL /\ IdleE /\ IdleH

SpecRL == InitLimiter /\ [][NextRL]_vars

\* Time passes: within the horizon at any moment, beyond it only while a
\* caller sleeps, so that no sleep is cut off by the end of the clock.
Advance ==
    /\ \/ now < MaxTime
       \/ \E c \in Callers : cpc[c] = "sleeping" /\ now < wakeAt[c]
    /\ now' = now + 1
    /\ UNCHANGED << rate, last_request_time, lock, cpc, mode, wakeAt, acquired, gap >>
    /\ UNCHANGED varsL
    /\ UNCHANGED varsH
    /\ UNCHANGED varsE

NextRLLive ==
    \/ Advance
    \/ \E c \in Callers, m \in Modes : Call(c, m)
    \/ \E c \in Callers : Lock(c)
    \/ \E c \in Callers : Compute(c)
    \/ \E c \in Callers : Wake(c)

\* The limiter with a clock that keeps running, callers that keep running
\* and a lock that a waiting caller gets in the end.
SpecRLLive ==
    /\ InitLimiter
    /\ [][NextRLLive]_vars
    /\ WF_vars(Advance)
    /\ \A c \in Callers : SF_vars(Lock(c)) /\ WF_vars(Compute(c)) /\ WF_vars(Wake(c))

\* ======================================================== cooperative loader
\* parallel_load_paginated_async: suspendable tasks on one event loop, with an
\* optional batch size and one rate limiter per invocation.

\* The units created and not yet finished.
InFlight == {i \in DOMAIN fstate : fstate[i] \in {"created", "acquired", "running"}}

\* The units of the batch being awaited: created and not yet gathered.
CurrentBatch == DOMAIN fstate \ Range(yielded)

\* The page_number values no task was created for yet.
Remaining == PageNumbers(Get(num_pages)) \ DOMAIN fstate

\* Variant: the batch size is ignored.
NextChunkAll(rem, b) == rem

\* The next batch: every remaining page without a batch size, else the
\* batch_size lowest remaining pages.
NextChunk(rem, b) ==
    IF IsNone(b) THEN rem
    ELSE {i \in rem : Cardinality({k \in rem : k < i}) < Get(b)}

RECURSIVE Ascending(_)
\* The elements of a set of integers in ascending order.
Ascending(S) ==
    IF S = {} THEN << >>
    ELSE LET m == CHOOSE x \in S : \A y \in S : x <= y
         IN  << m >> \o Ascending(S \ {m})

\* The limiter this invocation acquires on.
LimiterId == limiters[1][1]

\* rate_limiter = RateLimiter(rate_limit)
CoopStart ==
    /\ pc = "coop_start"
    /\ limiterCount' = limiterCount + 1
    /\ limiters' = Append(limiters, << limiterCount + 1, rate_limit >>)
    /\ pc' = "coop_seeding"
    /\ UNCHANGED << srvTotal, srvPageSize, shape, max_workers, error, first_response,
                    num_pages, responses, submitted, fstate, fresult, yielded, calls,
                    result, flat >>
    /\ UNCHANGED << variant, batch_size, rate_limit, acquires, other >>
    /\ UNCHANGED varsRL
    /\ UNCHANGED varsH

\* Variant: the seed call is made without an acquire.
CoopSeedNoAcquire ==
    /\ pc = "coop_seeding"
    /\ pc' = "coop_seed_fetch"
    /\ UNCHANGED << srvTotal, srvPageSize, shape, max_workers, error, first_response,
                    num_pages, responses, submitted, fstate, fresult, yielded, calls,
                    result, flat >>
    /\ UNCHANGED varsE
    /\ UNCHANGED varsRL
    /\ UNCHANGED varsH

\* await rate_limiter.acquire_async() before the seed call.
CoopSeedAcquire ==
    /\ pc = "coop_seeding"
    /\ acquires' = acquires (+) SetToBag({<< LimiterId, 1 >>})
    /\ pc' = "coop_seed_fetch"
    /\ UNCHANGED << srvTotal, srvPageSize, shape, max_workers, error, first_response,
                    num_pages, responses, submitted, fstate, fresult, yielded, calls,
                    result, flat >>
    /\ UNCHANGED << variant, batch_size, rate_limit, limiters, limiterCount, other >>
    /\ UNCHANGED varsRL
    /\ UNCHANGED varsH

\* first_response = await method(page=1, **kwargs)
CoopSeedFetch ==
    /\ pc = "coop_seed_fetch"
    /\ calls' = calls (+) SetToBag({1})
    /\ \/ /\ first_response' = Some(ServerResponse(1, <<0, 0>>))
          /\ pc' = "coop_validating"
          /\ error' = error
       \/ /\ pc' = "failed"
          /\ error' = "FetchError"
          /\ first_response' = first_response
    /\ UNCHANGED << srvTotal, srvPageSize, shape, max_workers, num_pages, responses,
                    submitted, fstate, fresult, yielded, result, flat >>
    /\ UNCHANGED varsE
    /\ UNCHANGED varsRL
    /\ UNCHANGED varsH

\* The checks on the seed response and the page arithmetic; a load of at
\* most one page returns the list of the seed response with nothing dispatched.
CoopValidate ==
    /\ pc = "coop_validating"
    /\ LET r  == Get(first_response)
           ps == ResolvePageSize(r)
       IN  IF MissingTotal(r) \/ BadPageSize(ps)
           THEN /\ pc' = "failed"
                /\ error' = "ValueError"
                /\ UNCHANGED << num_pages, responses, result >>
           ELSE LET n == NumPages(Get(r.total), Get(ps))
                IN  /\ num_pages' = Some(n)
                    /\ error' = error
                    /\ IF n <= 1
                       THEN /\ result' = Some(<< r >>)
                            /\ responses' = responses
                            /\ pc' = "done"
                       ELSE /\ responses' = [NoneList(n) EXCEPT ![1] = Some(r)]
                            /\ result' = result
                            /\ pc' = "coop_dispatching"
    /\ UNCHANGED << srvTotal, srvPageSize, shape, max_workers, first_response,
                    submitted, fstate, fresult, yielded, calls, flat >>
    /\ UNCHANGED varsE
    /\ UNCHANGED varsRL
    /\ UNCHANGED varsH

\* The tasks of the next batch are created, all at once.
CoopDispatch ==
    /\ pc = "coop_dispatching"
    /\ LET chunk == NextChunk(Remaining, batch_size)
       IN  /\ submitted' = submitted \o Ascending(chunk)
           /\ fstate' = [i \in chunk |-> "created"] @@ fstate
           /\ fresult' = [i \in chunk |-> None] @@ fresult
    /\ pc' = "coop_awaiting"
    /\ UNCHANGED << srvTotal, srvPageSize, shape, max_workers, error, first_response,
                    num_pages, responses, yielded, calls, result, flat >>
    /\ UNCHANGED varsE
    /\ UNCHANGED varsRL
    /\ UNCHANGED varsH

\* Task i: await rate_limiter.acquire_async() returns.
CoopTaskAcquire(i) ==
    /\ i \in DOMAIN fstate
    /\ fstate[i] = "created"
    /\ acquires' = acquires (+) SetToBag({<< LimiterId, PageArg(i) >>})
    /\ fstate' = [fstate EXCEPT ![i] = "acquired"]
    /\ UNCHANGED << srvTotal, srvPageSize, shape, max_workers, pc, error,
                    first_response, num_pages, responses, submitted, fresult,
                    yielded, calls, result, flat >>
    /\ UNCHANGED << variant, batch_size, rate_limit, limiters, limiterCount, other >>
    /\ UNCHANGED varsRL
    /\ UNCHANGED varsH

\* Task i: await method(page=page_number + 1, **kwargs) is issued.
CoopTaskStart(i) ==
    /\ i \in DOMAIN fstate
    /\ fstate[i] = "acquired"
    /\ calls' = calls (+) SetToBag({PageArg(i)})
    /\ fstate' = [fstate EXCEPT ![i] = "running"]
    /\ UNCHANGED << srvTotal, srvPageSize, shape, max_workers, pc, error,
                    first_response, num_pages, responses, submitted, fresult,
                    yielded, result, flat >>
    /\ UNCHANGED varsE
    /\ UNCHANGED varsRL
    /\ UNCHANGED varsH

\* Variant: the loader goes on as soon as one task of the batch has finished.
CoopGatherEarly ==
    /\ pc = "coop_awaiting"
    /\ \E i \in CurrentBatch : fstate[i] \in {"returned", "raised"}
    /\ LET fin == {i \in CurrentBatch : fstate[i] \in {"returned", "raised"}}
       IN  /\ yielded' = yielded \o Ascending(fin)
           /\ IF \E i \in fin : fstate[i] = "raised"
              THEN /\ pc' = "failed"
                   /\ error' = "FetchError"
                   /\ responses' = responses
              ELSE /\ responses' = [k \in DOMAIN responses |->
                                       IF (k - 1) \in fin
                                       THEN Some(Get(fresult[k - 1])[2])
                                       ELSE responses[k]]
                   /\ pc' = IF Remaining # {} THEN "coop_dispatching"
                            ELSE IF fin = CurrentBatch THEN "coop_assembling"
                            ELSE "coop_awaiting"
                   /\ error' = error
    /\ UNCHANGED << srvTotal, srvPageSize, shape, max_workers, first_response,
                    num_pages, submitted, fstate, fresult, calls, result, flat >>
    /\ UNCHANGED varsE
    /\ UNCHANGED varsRL
    /\ UNCHANGED varsH

\* Every task of the batch has finished: the first exception is raised, or
\* each result is stored at its page_number and the next batch follows.
CoopGather ==
    /\ pc = "coop_awaiting"
    /\ \A i \in CurrentBatch : fstate[i] \in {"returned", "raised"}
    /\ yielded' = yielded \o Ascending(CurrentBatch)
    /\ IF \E i \in CurrentBatch : fstate[i] = "raised"
       THEN /\ pc' = "failed"
            /\ error' = "FetchError"
            /\ responses' = responses
       ELSE /\ responses' = [k \in DOMAIN responses |->
                                IF (k - 1) \in CurrentBatch
                                THEN Some(Get(fresult[k - 1])[2])
                                ELSE responses[k]]
            /\ pc' = IF Remaining = {} THEN "coop_assembling" ELSE "coop_dispatching"
            /\ error' = error
    /\ UNCHANGED << srvTotal, srvPageSize, shape, max_workers, first_response,
                    num_pages, submitted, fstate, fresult, calls, result, flat >>
    /\ UNCHANGED varsE
    /\ UNCHANGED varsRL
    /\ UNCHANGED varsH

\* The page array, fully populated, is returned.
CoopReturn ==
    /\ pc = "coop_assembling"
    /\ result' = Some([k \in DOMAIN responses |-> Get(responses[k])])
    /\ pc' = "done"
    /\ UNCHANGED << srvTotal, srvPageSize, shape, max_workers, error, first_response,
                    num_pages, responses, submitted, fstate, fresult, yielded, calls,
                    flat >>
    /\ UNCHANGED varsE
    /\ UNCHANGED varsRL
    /\ UNCHANGED varsH

\* A call of the cooperative loader with its arguments.
InitCoop ==
    /\ srvTotal \in 0..MaxTotal
    /\ srvPageSize \in 0..MaxPageSize
    /\ srvPageSize > 0 => NumPages(srvTotal, srvPageSize) <= MaxPages
    /\ shape \in Shapes
    /\ max_workers = None
    /\ pc = "coop_start"
    /\ error = "none"
    /\ first_response = None
    /\ num_pages = None
    /\ responses = << >>
    /\ submitted = << >>
    /\ fstate = << >>
    /\ fresult = << >>
    /\ yielded = << >>
    /\ calls = EmptyBag
    /\ result = None
    /\ flat = None
    /\ variant = "coop"
    /\ batch_size \in {None} \cup {Some(b) : b \in 1..MaxBatch}
    /\ rate_limit \in {None} \cup {Some(r) : r \in 1..MaxRate}
    /\ limiters = << >>
    /\ acquires = EmptyBag
    /\ limiterCount = 0
    /\ other = None
    /\ IdleRL
    /\ IdleH

NextCoop ==
    \/ CoopStart
    \/ CoopSeedAcquire
    \/ CoopSeedFetch
    \/ CoopValidate
    \/ CoopDispatch
    \/ \E i \in DOMAIN fstate : CoopTaskAcquire(i)
    \/ \E i \in DOMAIN fstate : CoopTaskStart(i)
    \/ \E i \in DOMAIN fstate : FinishFetch(i)
    \/ CoopGather
    \/ CoopReturn
    \/ Flatten

SpecCoop == InitCoop /\ [][NextCoop]_vars

\* ============================================================ both variants
\* A call of either loader: the thread loader or the cooperative one.
InitAll ==
    \/ Init
    \/ InitCoop

NextAll ==
    \/ SeedFetch
    \/ Validate
    \/ Submit
    \/ BeginAwait
    \/ StartFetch
    \/ \E i \in DOMAIN fstate : FinishFetch(i)
    \/ \E i \in DOMAIN fstate : Collect(i)
    \/ EndAwait
    \/ Return
    \/ Shutdown
    \/ Flatten
    \/ CoopStart
    \/ CoopSeedAcquire
    \/ CoopSeedFetch
    \/ CoopValidate
    \/ CoopDispatch
    \/ \E i \in DOMAIN fstate : CoopTaskAcquire(i)
    \/ \E i \in DOMAIN fstate : CoopTaskStart(i)
    \/ CoopGather
    \/ CoopReturn

SpecAll == InitAll /\ [][NextAll]_vars

\* Either loader when every thread and task keeps running and every fetch that
\* was issued returns or raises.
SpecAllLive == SpecAll /\ WF_vars(NextAll)

\* ====================================================== two invocations
\* The locals of the running invocation: its arguments, its collection, its
\* page array, its units of work and its limiter.
Locals ==
    [srvTotal |-> srvTotal,
     srvPageSize |-> srvPageSize,
     shape |-> shape,
     max_workers |-> max_workers,
     pc |-> pc,
     error |-> error,
     first_response |-> first_response,
     num_pages |-> num_pages,
     responses |-> responses,
     submitted |-> submitted,
     fstate |-> fstate,
     fresult |-> fresult,
     yielded |-> yielded,
     calls |-> calls,
     result |-> result,
     flat |-> flat,
     variant |-> variant,
     batch_size |-> batch_size,
     rate_limit |-> rate_limit,
     limiters |-> limiters,
     acquires |-> acquires]

\* The locals of an invocation of the given variant that has not started, on
\* a collection of the given total.
Fresh(v, total) ==
    [srvTotal |-> total, srvPageSize |-> 1, shape |-> "full", max_workers |-> None,
     pc |-> IF v = "thread" THEN "seeding" ELSE "coop_start", error |-> "none",
     first_response |-> None, num_pages |-> None, responses |-> << >>,
     submitted |-> << >>, fstate |-> << >>, fresult |-> << >>, yielded |-> << >>,
     calls |-> EmptyBag, result |-> None, flat |-> None, variant |-> v,
     batch_size |-> None, rate_limit |-> IF v = "thread" THEN None ELSE Some(1),
     limiters |-> << >>, acquires |-> EmptyBag]

\* Variant: the page array is one object that both invocations write.
SwitchSharedPages ==
    /\ ~IsNone(other)
    /\ LET o == Get(other)
       IN
           /\ srvTotal' = o.srvTotal
           /\ srvPageSize' = o.srvPageSize
           /\ shape' = o.shape
           /\ max_workers' = o.max_workers
           /\ pc' = o.pc
           /\ error' = o.error
           /\ first_response' = o.first_response
           /\ num_pages' = o.num_pages
           /\ submitted' = o.submitted
           /\ fstate' = o.fstate
           /\ fresult' = o.fresult
           /\ yielded' = o.yielded
           /\ calls' = o.calls
           /\ result' = o.result
           /\ flat' = o.flat
           /\ variant' = o.variant
           /\ batch_size' = o.batch_size
           /\ rate_limit' = o.rate_limit
           /\ limiters' = o.limiters
           /\ acquires' = o.acquires
           /\ responses' = responses
    /\ other' = Some(Locals)
    /\ UNCHANGED limiterCount
    /\ UNCHANGED varsRL
    /\ UNCHANGED varsH

\* The scheduler suspends the running invocation and resumes the other one:
\* each finds its own locals again.
Switch ==
    /\ ~IsNone(other)
    /\ LET o == Get(other)
       IN
           /\ srvTotal' = o.srvTotal
           /\ srvPageSize' = o.srvPageSize
           /\ shape' = o.shape
           /\ max_workers' = o.max_workers
           /\ pc' = o.pc
           /\ error' = o.error
           /\ first_response' = o.first_response
           /\ num_pages' = o.num_pages
           /\ responses' = o.responses
           /\ submitted' = o.submitted
           /\ fstate' = o.fstate
           /\ fresult' = o.fresult
           /\ yielded' = o.yielded
           /\ calls' = o.calls
           /\ result' = o.result
           /\ flat' = o.flat
           /\ variant' = o.variant
           /\ batch_size' = o.batch_size
           /\ rate_limit' = o.rate_limit
           /\ limiters' = o.limiters
           /\ acquires' = o.acquires
    /\ other' = Some(Locals)
    /\ UNCHANGED limiterCount
    /\ UNCHANGED varsRL
    /\ UNCHANGED varsH

\* Two calls, each of either loader, each on its own collection.
InitTwo ==
    \E v1, v2 \in {"thread", "coop"} : \E t1, t2 \in 1..MaxTwoTotal :
        /\ srvTotal = Fresh(v1, t1).srvTotal
        /\ srvPageSize = Fresh(v1, t1).srvPageSize
        /\ shape = Fresh(v1, t1).shape
        /\ max_workers = Fresh(v1, t1).max_workers
        /\ pc = Fresh(v1, t1).pc
        /\ error = Fresh(v1, t1).error
        /\ first_response = Fresh(v1, t1).first_response
        /\ num_pages = Fresh(v1, t1).num_pages
        /\ responses = Fresh(v1, t1).responses
        /\ submitted = Fresh(v1, t1).submitted
        /\ fstate = Fresh(v1, t1).fstate
        /\ fresult = Fresh(v1, t1).fresult
        /\ yielded = Fresh(v1, t1).yielded
        /\ calls = Fresh(v1, t1).calls
        /\ result = Fresh(v1, t1).result
        /\ flat = Fresh(v1, t1).flat
        /\ variant = Fresh(v1, t1).variant
        /\ batch_size = Fresh(v1, t1).batch_size
        /\ rate_limit = Fresh(v1, t1).rate_limit
        /\ limiters = Fresh(v1, t1).limiters
        /\ acquires = Fresh(v1, t1).acquires
        /\ other = Some(Fresh(v2, t2))
        /\ limiterCount = 0
        /\ IdleRL
        /\ IdleH

NextTwo ==
    \/ NextAll
    \/ Switch

SpecTwo == InitTwo /\ [][NextTwo]_vars

\* ============================================================== request_json
\* request_json / arequest_json of http/utils.py: one request per iteration of
\* the loop, retried under a RetryPolicy with exponential backoff.

\* method.upper()
Upper(m) == CASE m = "get" -> "GET" [] m = "post" -> "POST" [] OTHER -> m

\* RetryPolicy's default retry_methods and retry_statuses.
DefaultRetryMethods == {"GET", "HEAD", "OPTIONS", "DELETE", "PUT", "PATCH", "POST"}
DefaultRetryStatuses == {408, 409, 425, 429, 500, 502, 503, 504}

\* The token the server hands out.
ServerToken == "srv"

\* A response: its status code, the kind of its body and the number of the
\* request it answers (which tells one response object from another).
Response(status, body, n) == [kind |-> "response", status |-> status, body |-> body, n |-> n]

\* A transport-level httpx.HTTPError; it carries no response.
TransportError == [kind |-> "HTTPError", response |-> None]

\* T3HTTPError(message, response=resp), a subclass of httpx.HTTPError.
T3HTTPError(resp) == [kind |-> "T3HTTPError", response |-> resp]

\* T3HTTPError.status_code
status_code(e) == IF ~IsNone(e.response) THEN Some(Get(e.response).status) ELSE None

\* What request n can give: a transport error, or a response.
Gots(n) ==
    {TransportError} \cup
    {Response(200, "json", n), Response(200, "invalid", n), Response(200, "empty", n),
     Response(204, "empty", n), Response(404, "json", n), Response(503, "json", n)}

\* resp.json() of a body that decodes: the dictionary of the response.
Json(resp) == [accessToken |-> ServerToken, n |-> resp.n]

\* Variant: the attempt number is not compared with max_attempts.
should_retry_unbounded(pol, att, m, exc, resp) ==
    IF Upper(m) \notin pol.retry_methods THEN FALSE
    ELSE IF ~IsNone(exc) THEN TRUE
    ELSE IF ~IsNone(resp) /\ Get(resp).status \in pol.retry_statuses THEN TRUE
    ELSE FALSE

\* _should_retry(policy, attempt, method, exc, resp)
should_retry(pol, att, m, exc, resp) ==
    IF att >= pol.max_attempts THEN FALSE
    ELSE IF Upper(m) \notin pol.retry_methods THEN FALSE
    ELSE IF ~IsNone(exc) THEN TRUE
    ELSE IF ~IsNone(resp) /\ Get(resp).status \in pol.retry_statuses THEN TRUE
    ELSE FALSE

\* _sleep_with_backoff(policy, attempt): the base delay of the sleep, None
\* when it returns without sleeping.
backoff_delay(pol, att) ==
    IF att <= 1 THEN None ELSE Some(pol.backoff_factor * 2 ^ (att - 2))

\* The sleep of base delay d with jitter j * 20 %, in fifths of the unit:
\* max(0.0, delay + jitter).
jittered(d, j) == Max(0, 5 * d + j * d)

\* The try body of one iteration on what the request gave: it asks for a
\* retry, returns a value or raises an exception.
TryBody(pol, att, m, exp, got) ==
    IF got.kind = "HTTPError"
    THEN [do |-> "raise", value |-> None, exc |-> Some(got)]
    ELSE IF got.status \notin exp
    THEN IF should_retry(pol, att, m, None, Some(got))
         THEN [do |-> "retry", value |-> None, exc |-> None]
         ELSE [do |-> "raise", value |-> None, exc |-> Some(T3HTTPError(Some(got)))]
    ELSE IF got.status = 204
    THEN [do |-> "return", value |-> None, exc |-> None]
    ELSE IF got.body = "empty"
    THEN [do |-> "return", value |-> None, exc |-> None]
    ELSE IF got.body = "json"
    THEN [do |-> "return", value |-> Some(Json(got)), exc |-> None]
    ELSE [do |-> "raise", value |-> None, exc |-> Some(T3HTTPError(Some(got)))]

\* except httpx.HTTPError as e: around the try body. Every exception the body
\* raises is an httpx.HTTPError, T3HTTPError included, so the clause takes it:
\* a retry, or T3HTTPError(str(e)), which carries no response.
Iteration(pol, att, m, exp, got) ==
    LET b == TryBody(pol, att, m, exp, got)
    IN  IF b.do # "raise" THEN b
        ELSE IF Get(b.exc).kind \in {"HTTPError", "T3HTTPError"}
        THEN IF should_retry(pol, att, m, b.exc, None)
             THEN [do |-> "retry", value |-> None, exc |-> None]
             ELSE [do |-> "raise", value |-> None, exc |-> Some(T3HTTPError(None))]
        ELSE b

\* One iteration of the while loop: attempt += 1, the request, and what
\* follows it up to the continue, the return or the raise.
Attempt ==
    /\ hpc = "loop"
    /\ attempt < MaxAttempts + 2
    /\ \E got \in Gots(requests + 1) : \E j \in {-1, 0, 1} :
          LET a == attempt + 1
              it == Iteration(policy, a, method, expected_status, got)
              d == backoff_delay(policy, a)
          IN  /\ attempt' = a
              /\ requests' = requests + 1
              /\ lastGot' = Some(got)
              /\ IF it.do = "retry"
                 THEN /\ hpc' = "loop"
                      /\ rjOutcome' = rjOutcome
                      /\ IF IsNone(d)
                         THEN /\ sleeps' = sleeps
                              /\ slept' = slept
                         ELSE /\ sleeps' = Append(sleeps, [before |-> a + 1, delay |-> Get(d)])
                              /\ slept' = Some(jittered(Get(d), j))
                 ELSE /\ hpc' = "back"
                      /\ rjOutcome' = Some(it)
                      /\ sleeps' = sleeps
                      /\ slept' = slept
    /\ UNCHANGED << klass, authenticated, access_token, headers, op, policy, method,
                    expected_status, outcome, before, opCount >>
    /\ UNCHANGED varsL
    /\ UNCHANGED varsRL
    /\ UNCHANGED varsE

\* ================================================================ T3APIClient
\* T3APIClient and AsyncT3APIClient of api/client.py; the two classes differ in
\* the await of the request only.

\* The tokens a caller passes to set_access_token.
Tokens == {"a", "b"}

\* set_bearer_token(client, token) on the client's Authorization header.
set_bearer_token(h, token) == Some("Bearer " \o token)

\* Variant: the header is left in place.
clear_bearer_token_kept(h) == h

\* clear_bearer_token(client)
clear_bearer_token(h) == IF ~IsNone(h) THEN None ELSE h

\* The property is_authenticated.
is_authenticated == authenticated /\ ~IsNone(access_token)

\* The token state of the client.
TokenState == << authenticated, access_token, headers >>

\* No call is in progress on the client and one more may be made.
Ready == hpc \in {"idle", "returned", "raised"} /\ opCount < MaxOps

Returned(v) == [do |-> "return", value |-> v, exc |-> None]
Raised(e) == [do |-> "raise", value |-> None, exc |-> Some(e)]

\* set_access_token(token)
SetAccessToken(token) ==
    /\ Ready
    /\ op' = "set_access_token"
    /\ before' = Some(TokenState)
    /\ opCount' = opCount + 1
    /\ access_token' = Some(token)
    /\ headers' = set_bearer_token(headers, token)
    /\ authenticated' = TRUE
    /\ hpc' = "returned"
    /\ outcome' = Some(Returned(None))
    /\ attempt' = 0
    /\ requests' = 0
    /\ lastGot' = None
    /\ sleeps' = << >>
    /\ slept' = None
    /\ rjOutcome' = None
    /\ UNCHANGED << klass, policy, method, expected_status >>
    /\ UNCHANGED varsL
    /\ UNCHANGED varsRL
    /\ UNCHANGED varsE

\* clear_access_token()
ClearAccessToken ==
    /\ Ready
    /\ op' = "clear_access_token"
    /\ before' = Some(TokenState)
    /\ opCount' = opCount + 1
    /\ access_token' = None
    /\ headers' = clear_bearer_token(headers)
    /\ authenticated' = FALSE
    /\ hpc' = "returned"
    /\ outcome' = Some(Returned(None))
    /\ attempt' = 0
    /\ requests' = 0
    /\ lastGot' = None
    /\ sleeps' = << >>
    /\ slept' = None
    /\ rjOutcome' = None
    /\ UNCHANGED << klass, policy, method, expected_status >>
    /\ UNCHANGED varsL
    /\ UNCHANGED varsRL
    /\ UNCHANGED varsE

\* Variant: the request is made whether or not the client is authenticated.
GetUnchecked(name) ==
    /\ Ready
    /\ op' = name
    /\ before' = Some(TokenState)
    /\ opCount' = opCount + 1
    /\ hpc' = "loop"
    /\ outcome' = None
    /\ method' = "GET"
    /\ expected_status' = {200}
    /\ attempt' = 0
    /\ requests' = 0
    /\ lastGot' = None
    /\ sleeps' = << >>
    /\ slept' = None
    /\ rjOutcome' = None
    /\ UNCHANGED << klass, authenticated, access_token, headers, policy >>
    /\ UNCHANGED varsL
    /\ UNCHANGED varsRL
    /\ UNCHANGED varsE

\* get_licenses / get_packages up to the call of request_json: the check of
\* is_authenticated, then the request with method GET and expected_status 200.
GetCollection(name) ==
    /\ Ready
    /\ op' = name
    /\ before' = Some(TokenState)
    /\ opCount' = opCount + 1
    /\ IF ~is_authenticated
       THEN /\ hpc' = "raised"
            /\ outcome' = Some(Raised(T3HTTPError(None)))
            /\ UNCHANGED << method, expected_status >>
       ELSE /\ hpc' = "loop"
            /\ outcome' = None
            /\ method' = "GET"
            /\ expected_status' = {200}
    /\ attempt' = 0
    /\ requests' = 0
    /\ lastGot' = None
    /\ sleeps' = << >>
    /\ slept' = None
    /\ rjOutcome' = None
    /\ UNCHANGED << klass, authenticated, access_token, headers, policy >>
    /\ UNCHANGED varsL
    /\ UNCHANGED varsRL
    /\ UNCHANGED varsE

\* Variant: the token of the request is installed before the request is made.
AuthenticateEager ==
    /\ Ready
    /\ op' = "authenticate_with_credentials"
    /\ before' = Some(TokenState)
    /\ opCount' = opCount + 1
    /\ hpc' = "loop"
    /\ outcome' = None
    /\ method' = "POST"
    /\ expected_status' = {200}
    /\ access_token' = Some(ServerToken)
    /\ headers' = set_bearer_token(headers, ServerToken)
    /\ authenticated' = TRUE
    /\ attempt' = 0
    /\ requests' = 0
    /\ lastGot' = None
    /\ sleeps' = << >>
    /\ slept' = None
    /\ rjOutcome' = None
    /\ UNCHANGED << klass, policy >>
    /\ UNCHANGED varsL
    /\ UNCHANGED varsRL
    /\ UNCHANGED varsE

\* authenticate_with_credentials up to the call of request_json: method POST,
\* expected_status 200.
Authenticate ==
    /\ Ready
    /\ op' = "authenticate_with_credentials"
    /\ before' = Some(TokenState)
    /\ opCount' = opCount + 1
    /\ hpc' = "loop"
    /\ outcome' = None
    /\ method' = "POST"
    /\ expected_status' = {200}
    /\ attempt' = 0
    /\ requests' = 0
    /\ lastGot' = None
    /\ sleeps' = << >>
    /\ slept' = None
    /\ rjOutcome' = None
    /\ UNCHANGED << klass, authenticated, access_token, headers, policy >>
    /\ UNCHANGED varsL
    /\ UNCHANGED varsRL
    /\ UNCHANGED varsE

\* request_json has returned or raised into the method that called it:
\* get_licenses and get_packages return the value or re-raise as a
\* T3HTTPError with e.response; authenticate_with_credentials installs
\* response_data["accessToken"] and returns, or re-raises likewise. A direct
\* call of request_json ends as request_json did.
Back ==
    /\ hpc = "back"
    /\ LET r == Get(rjOutcome)
       IN  IF op = "request_json"
           THEN /\ outcome' = rjOutcome
                /\ hpc' = IF r.do = "return" THEN "returned" ELSE "raised"
                /\ UNCHANGED << authenticated, access_token, headers >>
           ELSE IF r.do = "raise"
           THEN /\ outcome' = Some(Raised(T3HTTPError(Get(r.exc).response)))
                /\ hpc' = "raised"
                /\ UNCHANGED << authenticated, access_token, headers >>
           ELSE IF op = "authenticate_with_credentials"
           THEN IF IsNone(r.value)
                THEN /\ outcome' = Some(Raised([kind |-> "TypeError", response |-> None]))
                     /\ hpc' = "raised"
                     /\ UNCHANGED << authenticated, access_token, headers >>
                ELSE /\ access_token' = Some(Get(r.value).accessToken)
                     /\ headers' = set_bearer_token(headers, Get(r.value).accessToken)
                     /\ authenticated' = TRUE
                     /\ outcome' = rjOutcome
                     /\ hpc' = "returned"
           ELSE /\ outcome' = rjOutcome
                /\ hpc' = "returned"
                /\ UNCHANGED << authenticated, access_token, headers >>
    /\ UNCHANGED << klass, op, policy, method, expected_status, attempt, requests,
                    lastGot, sleeps, slept, rjOutcome, before, opCount >>
    /\ UNCHANGED varsL
    /\ UNCHANGED varsRL
    /\ UNCHANGED varsE

\* The retry policies tried.
Policies ==
    [max_attempts : 1..MaxAttempts, backoff_factor : 1..MaxBackoff,
     retry_methods : {{}, {"GET"}, DefaultRetryMethods},
     retry_statuses : {{}, DefaultRetryStatuses}]

\* A direct call of request_json enters its loop.
InitHTTP ==
    /\ klass = "none"
    /\ authenticated = FALSE
    /\ access_token = None
    /\ headers = None
    /\ op = "request_json"
    /\ hpc = "loop"
    /\ policy \in Policies
    /\ method \in {"GET", "get", "POST"}
    /\ expected_status \in {{200}, {200, 201, 202, 204}}
    /\ attempt = 0
    /\ requests = 0
    /\ lastGot = None
    /\ sleeps = << >>
    /\ slept = None
    /\ rjOutcome = None
    /\ outcome = None
    /\ before = None
    /\ opCount = 1
    /\ IdleL
    /\ IdleRL
    /\ IdleE

NextHTTP ==
    \/ Attempt
    \/ Back

SpecHTTP == InitHTTP /\ [][NextHTTP]_vars

\* Every request ends, with a response or an exception, and every sleep ends.
SpecHTTPLive == SpecHTTP /\ WF_vars(NextHTTP)

\* The retry policies a client is built with: the default one, with one to
\* MaxAttempts - 1 attempts.
ClientPolicies ==
    [max_attempts : 1..(MaxAttempts - 1), backoff_factor : {1},
     retry_methods : {DefaultRetryMethods}, retry_statuses : {DefaultRetryStatuses}]

\* A client of either class right after __init__.
InitClient ==
    /\ klass \in {"T3APIClient", "AsyncT3APIClient"}
    /\ authenticated = FALSE
    /\ access_token = None
    /\ headers = None
    /\ op = "none"
    /\ hpc = "idle"
    /\ policy \in ClientPolicies
    /\ method = "none"
    /\ expected_status = {}
    /\ attempt = 0
    /\ requests = 0
    /\ lastGot = None
    /\ sleeps = << >>
    /\ slept = None
    /\ rjOutcome = None
    /\ outcome = None
    /\ before = None
    /\ opCount = 0
    /\ IdleL
    /\ IdleRL
    /\ IdleE

NextClient ==
    \/ \E token \in Tokens : SetAccessToken(token)
    \/ ClearAccessToken
    \/ \E name \in {"get_licenses", "get_packages"} : GetCollection(name)
    \/ Authenticate
    \/ Attempt
    \/ Back

SpecClient == InitClient /\ [][NextClient]_vars

\* ================================================================ extract_data
RECURSIVE SeqsUpTo(_, _)
\* The sequences over S of length at most n.
SeqsUpTo(S, n) ==
    IF n = 0 THEN { << >> }
    ELSE LET shorter == SeqsUpTo(S, n - 1)
         IN  shorter \cup {Append(q, x) : q \in shorter, x \in S}

\* An object with a data attribute holding the list d.
FlatResponse(d) ==
    [ page |-> 0, total |-> None, page_size |-> None, len |-> Some(Len(d)), data |-> d ]

\* The lists of responses extract_data is applied to.
FlatInputs ==
    SeqsUpTo({FlatResponse(d) : d \in SeqsUpTo(1..MaxFlatLen, MaxFlatLen)}, MaxFlatPages)

\* A caller holds a list of responses and flattens it.
InitFlat ==
    /\ result \in {Some(rs) : rs \in FlatInputs}
    /\ flat = None
    /\ pc = "done"
    /\ srvTotal = 0
    /\ srvPageSize = 0
    /\ shape = "full"
    /\ max_workers = None
    /\ error = "none"
    /\ first_response = None
    /\ num_pages = None
    /\ responses = << >>
    /\ submitted = << >>
    /\ fstate = << >>
    /\ fresult = << >>
    /\ yielded = << >>
    /\ calls = EmptyBag
    /\ IdleRL
    /\ IdleH
    /\ IdleE

NextFlat == Flatten

SpecFlat == InitFlat /\ [][NextFlat]_vars

\* ===================================================================== claims
\* The response obtained for page p (1-based) in this load.
Obtained(p) == IF p = 1 THEN Get(first_response) ELSE Get(fresult[p - 1])[2]

\* The seed's page count, as the code derives it from a valid seed response.
SeedNumPages ==
    NumPages(Get(Get(first_response).total), Get(ResolvePageSize(Get(first_response))))

SeedValid ==
    /\ ~IsNone(first_response)
    /\ ~MissingTotal(Get(first_response))
    /\ ~BadPageSize(ResolvePageSize(Get(first_response)))

RECURSIVE SerialLoad(_, _)
\* Pages p..n fetched one after the other, their data concatenated.
SerialLoad(p, n) == IF p > n THEN << >> ELSE PageData(p) \o SerialLoad(p + 1, n)

\* C1: when the loader returns for num_pages >= 2, index i of the returned
\* list holds the response obtained for page i + 1, whatever the order in
\* which the fetches completed.
C1_PageOrder ==
    (pc = "done" /\ Get(num_pages) >= 2) =>
        \A i \in 0..(Get(num_pages) - 1) :
            /\ (i + 1) \in DOMAIN Get(result)
            /\ Get(result)[i + 1] = Obtained(i + 1)
            /\ Get(result)[i + 1].page = i + 1

\* C1 witness: a three-page load has returned after page 3 completed before
\* page 2.
C1_Witness ==
    /\ pc = "done"
    /\ num_pages = Some(3)
    /\ yielded = << 2, 1 >>

\* C2: once the fetch of a page 2..num_pages has raised, the loader never
\* returns a list (and nothing is flattened); the call ends only as a failure.
C2_FailurePropagates ==
    (\E i \in DOMAIN fstate : fstate[i] = "raised") =>
        /\ pc \in {"dispatching", "awaiting", "exiting", "failed"}
        /\ IsNone(result)
        /\ IsNone(flat)
        /\ (pc = "failed" => error = "FetchError")

\* C2 witness: the load has failed with one page fetched and another raised.
C2_Witness ==
    /\ pc = "failed"
    /\ error = "FetchError"
    /\ \E i, j \in DOMAIN fstate : fstate[i] = "raised" /\ fstate[j] = "returned"

\* C3: no page is ever passed to the fetch callable twice, the responses
\* collected go to pairwise distinct slots other than the seed's, and a
\* successful load has called the fetch callable exactly once for each page
\* 1..num_pages.
C3_ExactlyOnce ==
    /\ \A p \in BagToSet(calls) : CopiesIn(p, calls) = 1
    /\ \A k, m \in 1..Len(yielded) :
          (k # m /\ fstate[yielded[k]] = "returned" /\ fstate[yielded[m]] = "returned")
              => /\ Get(fresult[yielded[k]])[1] # Get(fresult[yielded[m]])[1]
                 /\ Get(fresult[yielded[k]])[1] # 0
    /\ pc = "done" =>
          /\ Get(num_pages) >= 1
          /\ calls = SetToBag(1..Get(num_pages))
          /\ BagCardinality(calls) = Get(num_pages)

\* C3 witness: a successful load of three pages.
C3_Witness ==
    /\ pc = "done"
    /\ num_pages = Some(3)
    /\ BagCardinality(calls) = 3

\* C4: with a valid seed response and num_pages <= 1, the call ends by
\* returning the list of the seed response alone, after one fetch call and
\* without a unit submitted.
C4_SinglePage ==
    (pc \in {"done", "failed"} /\ SeedValid /\ SeedNumPages <= 1) =>
        /\ pc = "done"
        /\ result = Some(<< Get(first_response) >>)
        /\ calls = SetToBag({1})
        /\ submitted = << >>

\* C5: the list is handed out only with every slot filled; it has num_pages
\* elements, none dropped, each the response of a fetch of this load.
C5_FullyPopulated ==
    /\ ~IsNone(result) => \A k \in DOMAIN responses : ~IsNone(responses[k])
    /\ pc = "done" =>
          /\ Len(Get(result)) = Get(num_pages)
          /\ Len(responses) = Get(num_pages)
          /\ \A k \in DOMAIN Get(result) :
                \E p \in 1..Get(num_pages) : Get(result)[k] = Obtained(p)

\* C5 witness: a load of several pages has returned.
C5_Witness ==
    /\ pc = "done"
    /\ Get(num_pages) >= 3
    /\ Len(Get(result)) >= 3

\* C6: load_collection returns the records of pages 1..num_pages in the order
\* a strictly serial fetch would give, for every completion order.
C6_SerialEquivalence ==
    ~IsNone(flat) => Get(flat) = SerialLoad(1, Get(num_pages))

\* C6 witness: the flattened list of a three-page load whose page 3 completed
\* before page 2, with more than one record on a page.
C6_Witness ==
    /\ ~IsNone(flat)
    /\ num_pages = Some(3)
    /\ yielded = << 2, 1 >>
    /\ Len(Get(flat)) > 3

\* C7: the page count is the one derived from the seed response: responses of
\* later pages that report another total or page size change neither it, nor
\* the size of the page array, nor the pages submitted, nor the length of the
\* returned list.
C7_NumPagesFixed ==
    ~IsNone(num_pages) =>
        /\ num_pages = Some(SeedNumPages)
        /\ Len(responses) = SeedNumPages
        /\ Range(submitted) \subseteq PageNumbers(SeedNumPages)
        /\ pc \in {"awaiting", "assembling", "done"} =>
              Range(submitted) = PageNumbers(SeedNumPages)
        /\ pc = "done" => Len(Get(result)) = SeedNumPages

\* C7 witness: a load has returned although a later page reported another
\* total and another one another page size than the seed.
C7_Witness ==
    /\ pc = "done"
    /\ \E i \in DOMAIN fresult :
          Get(fresult[i])[2].total # Get(first_response).total
    /\ \E i \in DOMAIN fresult :
          Get(fresult[i])[2].page_size # Get(first_response).page_size

\* C8: a seed response without a total, or with neither a page size nor a
\* length, makes the call fail with ValueError after the one seed call and
\* with no unit submitted.
C8_ConfigError ==
    (/\ ~IsNone(first_response)
     /\ pc # "validating"
     /\ \/ MissingTotal(Get(first_response))
        \/ IsNone(Get(first_response).page_size) /\ IsNone(Get(first_response).len))
    =>  /\ pc = "failed"
        /\ error = "ValueError"
        /\ calls = SetToBag({1})
        /\ submitted = << >>
        /\ fstate = << >>
        /\ IsNone(result)

\* C8 witness: the call failed on a seed response that has a total but
\* neither a page size nor a length.
C8_Witness ==
    /\ pc = "failed"
    /\ error = "ValueError"
    /\ shape = "no_page_size"
    /\ srvTotal > 0

\* C9: with a rate above zero, any two successive acquisitions are at least
\* one interval apart, at most one caller is between reading the shared
\* timestamp and writing it, and a sleeping caller holds the critical section.
C9_Spacing ==
    Throttled(rate) =>
        /\ ~IsNone(gap) => Get(gap) >= MinInterval(rate)
        /\ Cardinality({c \in Callers : cpc[c] \in {"locked", "sleeping"}}) <= 1
        /\ \A c \in Callers : cpc[c] \in {"locked", "sleeping"} => lock = Some(c)

\* C9 witness: a second acquisition was made exactly one interval after the
\* first while another caller was queueing for the limiter.
C9_Witness ==
    /\ Throttled(rate)
    /\ ~IsNone(gap)
    /\ Get(gap) = MinInterval(rate)
    /\ \E c \in Callers : cpc[c] = "locking"

\* C10: a limiter with a rate of None, zero or below never makes a caller
\* wait: every call returns in the step that makes it, so no caller is ever
\* queueing for the critical section, inside it or asleep.
C10_Disabled ==
    (IsNone(rate) \/ Get(rate) <= 0) =>
        /\ \A c \in Callers : cpc[c] = "idle"
        /\ IsNone(lock)

\* C10 witness: several acquire calls on a limiter of rate 0 have returned
\* with no time passed.
C10_Witness ==
    /\ rate = Some(0)
    /\ acquired >= 2
    /\ now = 0

\* C14: with max_workers = w at most w fetches execute at the same moment,
\* and a load that returns has still fetched every page 2..num_pages, each
\* unit having returned.
C14_WorkerBound ==
    /\ ~IsNone(max_workers) => Cardinality(Running) <= Get(max_workers)
    /\ (variant = "thread" /\ pc = "done") =>
          \A p \in 2..Get(num_pages) :
              /\ CopiesIn(p, calls) = 1
              /\ (p - 1) \in DOMAIN fstate
              /\ fstate[p - 1] = "returned"

\* C14 witness: one worker has served a load of two pages beyond the seed.
C14_Witness ==
    /\ pc = "done"
    /\ max_workers = Some(1)
    /\ Get(num_pages) - 1 > Get(max_workers)

\* C16: nothing is submitted and no other page is fetched until the seed call
\* has returned; a seed call that raises is the only call of the load, and
\* the call fails with its error; no limiter delays the seed call.
C16_SeedAlone ==
    /\ pc = "seeding" => calls = EmptyBag
    /\ IsNone(first_response) =>
          /\ fstate = << >>
          /\ submitted = << >>
          /\ BagToSet(calls) \subseteq {1}
          /\ CopiesIn(1, calls) <= 1
          /\ pc \in {"seeding", "failed"}
          /\ pc = "failed" => error = "FetchError" /\ calls = SetToBag({1})
    /\ variant = "thread" => limiters = << >> /\ acquires = EmptyBag

\* C16 witness: the call failed on the seed fetch.
C16_Witness ==
    /\ pc = "failed"
    /\ error = "FetchError"
    /\ IsNone(first_response)
    /\ calls = SetToBag({1})

\* C17: when the call has ended, by returning or by raising, every unit it
\* dispatched has finished.
C17_FanIn ==
    pc \in {"done", "failed"} =>
        \A i \in DOMAIN fstate : fstate[i] \in {"returned", "raised"}

\* C17 witness: the call failed on one unit's exception, and a unit that was
\* never collected has finished all the same.
C17_Witness ==
    /\ pc = "failed"
    /\ \E i \in DOMAIN fstate : fstate[i] = "raised" /\ i \in Range(yielded)
    /\ \E j \in DOMAIN fstate : fstate[j] = "returned" /\ j \notin Range(yielded)

\* C18: no page number is passed to the fetch callable a second time, also
\* not after its fetch raised: the calls made never exceed the seed call plus
\* one per unit submitted.
C18_NoRetry ==
    /\ \A p \in BagToSet(calls) : CopiesIn(p, calls) <= 1
    /\ BagCardinality(calls) <= 1 + Cardinality(DOMAIN fstate)
    /\ \A i \in DOMAIN fstate : fstate[i] = "raised" => CopiesIn(PageArg(i), calls) = 1

\* C18 witness: the call has failed after a unit's fetch raised.
C18_Witness ==
    /\ pc = "failed"
    /\ \E i \in DOMAIN fstate : fstate[i] = "raised"
    /\ BagCardinality(calls) >= 3

RECURSIVE SumLen(_)
\* Total number of items of the responses rs.
SumLen(rs) == IF rs = << >> THEN 0 ELSE Len(Head(rs).data) + SumLen(Tail(rs))

\* Number of items of the responses before the i-th.
Offset(rs, i) == SumLen(SubSeq(rs, 1, i - 1))

C15_Positions ==
    ~IsNone(flat) =>
        LET rs  == Get(result)
            out == Get(flat)
        IN  /\ Len(out) = SumLen(rs)
            /\ \A i \in 1..Len(rs) : \A j \in 1..Len(rs[i].data) :
                  /\ (Offset(rs, i) + j) \in DOMAIN out
                  /\ out[Offset(rs, i) + j] = rs[i].data[j]

\* C15: extract_data puts item j of response i at position
\* (items of the responses before i) + j of its output, whose length is the
\* sum of the responses' lengths, so that items keep the order of the input
\* list and the order within each response; the input list is not changed.
C15_Concatenation == [][result' = result]_vars /\ []C15_Positions

\* C15 witness: two responses of two different items each have been
\* flattened in order.
C15_Witness ==
    /\ variant = "thread"
    /\ result = Some(<< FlatResponse(<< 2, 1 >>), FlatResponse(<< 1, 2 >>) >>)
    /\ flat = Some(<< 2, 1, 1, 2 >>)

\* The 0-based index of the batch that page_number i belongs to when pages
\* 2..num_pages are cut into consecutive chunks of b.
ChunkOf(i, b) == (i - 1) \div b

\* C11: with batch_size = b the cooperative loader never has more than b page
\* fetches in flight, whatever the page count and the completion order.
C11_BatchBound ==
    (variant = "coop" /\ ~IsNone(batch_size)) =>
        Cardinality(InFlight) <= Get(batch_size)

\* A full batch of two fetches is in flight in a load of four pages.
C11_Witness ==
    /\ variant = "coop"
    /\ batch_size = Some(2)
    /\ num_pages = Some(4)
    /\ Cardinality(Running) = 2

\* C12: with batch_size = b the tasks are created chunk by chunk, the chunks
\* being the consecutive runs of b pages of 2..num_pages, and no task of a
\* later chunk exists while a task of an earlier chunk is unfinished.
C12_ChunkBarrier ==
    (variant = "coop" /\ ~IsNone(batch_size) /\ ~IsNone(num_pages)) =>
        LET b == Get(batch_size)
        IN  /\ \A i \in DOMAIN fstate : \A k \in PageNumbers(Get(num_pages)) :
                   ChunkOf(k, b) <= ChunkOf(i, b) => k \in DOMAIN fstate
            /\ \A i, j \in DOMAIN fstate :
                   ChunkOf(i, b) < ChunkOf(j, b) => fstate[i] \in {"returned", "raised"}
            /\ \A i \in InFlight : \A j \in InFlight : ChunkOf(i, b) = ChunkOf(j, b)

\* The second chunk, of one page, is in flight after the first chunk of two
\* pages completed out of order.
C12_Witness ==
    /\ variant = "coop"
    /\ batch_size = Some(2)
    /\ num_pages = Some(4)
    /\ DOMAIN fstate = {1, 2, 3}
    /\ fstate[3] = "running"
    /\ fstate[1] = "returned"
    /\ fstate[2] = "returned"
    /\ yielded = << 1, 2 >>

C13_SameOutcome ==
    pc \in {"done", "failed"} =>
        IF IsNone(first_response) \/ \E i \in DOMAIN fstate : fstate[i] = "raised"
        THEN pc = "failed" /\ error = "FetchError"
        ELSE IF ~SeedValid
        THEN pc = "failed" /\ error = "ValueError"
        ELSE /\ pc = "done"
             /\ result = Some([k \in 1..Max(1, SeedNumPages) |-> Obtained(k)])
             /\ BagCardinality(calls) = Max(1, SeedNumPages)

\* The identities of the limiters in a sequence of limiters.
LimiterIds(ls) == {ls[k][1] : k \in DOMAIN ls}

\* C20: of two invocations running concurrently each has its own page array
\* and its own limiter: an invocation returns the pages of its own collection
\* in page order, it acquires on its own limiter only, and the two limiters
\* are distinct objects.
C20_Isolation ==
    ~IsNone(other) =>
        /\ pc = "done" =>
               /\ Len(Get(result)) = NumPages(srvTotal, srvPageSize)
               /\ \A k \in DOMAIN Get(result) :
                      /\ Get(result)[k] = Obtained(k)
                      /\ Get(result)[k] \in {ServerResponse(k, d) : d \in Drifts}
        /\ \A k \in DOMAIN responses :
               ~IsNone(responses[k]) =>
                   Get(responses[k]) \in {ServerResponse(k, d) : d \in Drifts}
        /\ \A a \in BagToSet(acquires) : a[1] \in LimiterIds(limiters)
        /\ LimiterIds(limiters) \cap LimiterIds(Get(other).limiters) = {}

\* An invocation that started second has returned the two pages of its
\* collection, having acquired on its limiter, while the invocation that
\* started first, on a collection of another size, is between its seed fetch
\* and its checks.
C20_Witness ==
    /\ ~IsNone(other)
    /\ pc = "done"
    /\ Len(Get(result)) = 2
    /\ LimiterIds(limiters) = {2}
    /\ BagCardinality(acquires) = 2
    /\ Get(other).srvTotal = 1
    /\ Get(other).pc = "coop_validating"
    /\ LimiterIds(Get(other).limiters) = {1}
    /\ BagCardinality(Get(other).acquires) = 1

\* C21: on a client of either class, at every point of every sequence of
\* set_access_token, clear_access_token and authenticate_with_credentials
\* calls (and get calls), is_authenticated holds exactly when access_token is
\* set, and exactly then the HTTP client carries Authorization = "Bearer " +
\* access_token; a client on which nothing was called has neither.
C21_TokenHeader ==
    klass # "none" =>
        /\ is_authenticated <=> ~IsNone(access_token)
        /\ ~IsNone(access_token) <=> ~IsNone(headers)
        /\ ~IsNone(access_token) => headers = Some("Bearer " \o Get(access_token))
        /\ opCount = 0 => ~is_authenticated /\ IsNone(access_token) /\ IsNone(headers)

\* A token was set, then cleared, then the client authenticated with
\* credentials and carries the server's token.
C21_Witness ==
    /\ klass = "AsyncT3APIClient"
    /\ opCount = 3
    /\ op = "authenticate_with_credentials"
    /\ hpc = "returned"
    /\ before = Some(<< FALSE, None, None >>)
    /\ headers = Some("Bearer srv")

\* C22: get_licenses and get_packages on a client that is not authenticated
\* raise T3HTTPError, issue no request and leave the token state as it was.
C22_NotAuthenticated ==
    (op \in {"get_licenses", "get_packages"}
        /\ ~(Get(before)[1] /\ ~IsNone(Get(before)[2]))) =>
        /\ hpc = "raised"
        /\ Get(outcome).do = "raise"
        /\ Get(Get(outcome).exc).kind = "T3HTTPError"
        /\ requests = 0
        /\ TokenState = Get(before)

\* get_packages raised on a client whose token had been cleared.
C22_Witness ==
    /\ op = "get_packages"
    /\ hpc = "raised"
    /\ requests = 0
    /\ opCount = 3
    /\ TokenState = << FALSE, None, None >>

\* C23: authenticate_with_credentials leaves the token state untouched while
\* its request is made; when the request fails it raises T3HTTPError with the
\* token state as before the call, and when it returns the token is the
\* accessToken of the response.
C23_AuthFrame ==
    op = "authenticate_with_credentials" =>
        /\ hpc \in {"loop", "back"} => TokenState = Get(before)
        /\ (hpc \in {"returned", "raised"} /\ Get(rjOutcome).do = "raise") =>
               /\ hpc = "raised"
               /\ Get(Get(outcome).exc).kind = "T3HTTPError"
               /\ TokenState = Get(before)
        /\ hpc = "returned" =>
               /\ access_token = Some(Get(Get(outcome).value).accessToken)
               /\ headers = Some("Bearer " \o Get(Get(outcome).value).accessToken)
               /\ is_authenticated

\* Authentication failed, after at least one request, on a client that held
\* token "a".
C23_Witness ==
    /\ op = "authenticate_with_credentials"
    /\ hpc = "raised"
    /\ Get(rjOutcome).do = "raise"
    /\ requests >= 1
    /\ TokenState = << TRUE, Some("a"), Some("Bearer a") >>

\* The latest request gave a response of the given kind.
GotResponse == ~IsNone(lastGot) /\ Get(lastGot).kind = "response"

\* C25: a further attempt follows a failed one only if the attempt number is
\* below max_attempts, the method is in retry_methods, and the failure was a
\* transport exception or a response whose status is in retry_statuses; a
\* response whose status is neither expected nor in retry_statuses, and a body
\* that fails to decode, end the call with T3HTTPError after that attempt.
C25_RetryOnlyTransient ==
    /\ (hpc = "loop" /\ attempt >= 1) =>
           /\ attempt < policy.max_attempts
           /\ Upper(method) \in policy.retry_methods
           /\ \/ Get(lastGot).kind = "HTTPError"
              \/ Get(lastGot).status \in policy.retry_statuses
    /\ (op = "request_json" /\ GotResponse
          /\ \/ /\ Get(lastGot).status \notin expected_status
                /\ Get(lastGot).status \notin policy.retry_statuses
             \/ /\ Get(lastGot).status \in expected_status
                /\ Get(lastGot).status # 204
                /\ Get(lastGot).body = "invalid") =>
           /\ hpc \in {"back", "raised"}
           /\ Get(rjOutcome).do = "raise"
           /\ Get(Get(rjOutcome).exc).kind = "T3HTTPError"

\* C26: request_json issues at most max_attempts requests, the first one
\* included, then returns the parsed body or raises T3HTTPError; the loop
\* ends whatever the responses and exceptions are.
C26_BoundedAttempts ==
    /\ [](op = "request_json" =>
             /\ requests = attempt
             /\ requests <= policy.max_attempts
             /\ hpc \in {"returned", "raised"} =>
                    \/ Get(outcome).do = "return"
                    \/ Get(Get(outcome).exc).kind = "T3HTTPError")
    /\ <>(hpc \in {"returned", "raised"})

\* A call has used up its three attempts and raised.
C26_Witness ==
    /\ op = "request_json"
    /\ hpc = "raised"
    /\ policy.max_attempts = 3
    /\ requests = 3

\* C27: no sleep precedes the first attempt, and each attempt n >= 2 is
\* preceded by exactly one sleep, of base delay backoff_factor * 2^(n-2).
C27_BackoffSchedule ==
    op = "request_json" =>
        /\ Len(sleeps) = (IF hpc = "loop" THEN attempt + 1 ELSE attempt) - 1
        /\ \A k \in DOMAIN sleeps :
               /\ sleeps[k].before = k + 1
               /\ sleeps[k].delay = policy.backoff_factor * 2 ^ (k - 1)

\* C28: when a call fails for good on a response whose status is not
\* expected, the T3HTTPError request_json raises carries that response, its
\* status_code is the status of the response, and the error the client
\* method raises carries the same response.
C28_ErrorCarriesResponse ==
    (hpc = "raised" /\ requests >= 1 /\ GotResponse
        /\ Get(lastGot).status \notin expected_status) =>
        /\ Get(rjOutcome).do = "raise"
        /\ Get(Get(rjOutcome).exc).response = lastGot
        /\ status_code(Get(Get(rjOutcome).exc)) = Some(Get(lastGot).status)
        /\ Get(Get(outcome).exc).response = lastGot

\* The state of the loader's state machine that a position of the call is in.
Phase(p) ==
    CASE p \in {"seeding", "validating"} -> "SEEDING"
      [] p = "dispatching" -> "DISPATCHING"
      [] p \in {"awaiting", "exiting"} -> "AWAITING"
      [] p = "assembling" -> "ASSEMBLING"
      [] p = "done" -> "DONE"
      [] p = "failed" -> "FAILED"
      [] OTHER -> "NONE"

\* The moves of the state machine other than into FAILED.
ForwardMove(from, to) ==
    \/ from = to
    \/ from = "SEEDING" /\ to = "DONE" /\ ~IsNone(num_pages') /\ Get(num_pages') <= 1
    \/ from = "SEEDING" /\ to = "DISPATCHING"
    \/ from = "DISPATCHING" /\ to = "AWAITING"
    \/ from = "AWAITING" /\ to = "ASSEMBLING"
    \/ from = "ASSEMBLING" /\ to = "DONE"

\* C24 as stated: the call moves only along SEEDING -> DONE (num_pages <= 1)
\* or SEEDING -> DISPATCHING -> AWAITING -> ASSEMBLING -> DONE; FAILED is
\* entered only from DISPATCHING or AWAITING, on a propagated fetch error;
\* DONE and FAILED are left no more.
C24_AsStated ==
    [][\/ ForwardMove(Phase(pc), Phase(pc'))
       \/ /\ Phase(pc) \in {"DISPATCHING", "AWAITING"}
          /\ Phase(pc') = "FAILED"
          /\ error' = "FetchError"]_vars

\* C24 amended: as above, and FAILED is also entered from SEEDING, when the
\* seed fetch raises or the seed response cannot be used (ValueError, or
\* IndexError on an empty collection).
C24_PhaseOrder ==
    [][\/ ForwardMove(Phase(pc), Phase(pc'))
       \/ /\ Phase(pc) \in {"DISPATCHING", "AWAITING"}
          /\ Phase(pc') = "FAILED"
          /\ error' = "FetchError"
          /\ \E i \in DOMAIN fstate : fstate[i] = "raised"
       \/ /\ Phase(pc) = "SEEDING"
          /\ Phase(pc') = "FAILED"
          /\ \/ error' = "FetchError" /\ IsNone(first_response')
             \/ error' \in {"ValueError", "IndexError"} /\ ~IsNone(first_response')]_vars

\* The call failed in SEEDING on its seed fetch, nothing dispatched.
C24_Witness ==
    /\ pc = "failed"
    /\ error = "FetchError"
    /\ IsNone(first_response)
    /\ submitted = << >>

C30_Completes ==
    /\ <>(pc \in {"done", "failed"})
    /\ [](pc \in {"done", "failed"} =>
             \A i \in DOMAIN fstate : fstate[i] \in {"returned", "raised"})

\* With one worker the first unit raised, and the call failed only after the
\* unit still queued had run and finished.
C30_Witness ==
    /\ pc = "failed"
    /\ error = "FetchError"
    /\ variant = "thread"
    /\ max_workers = Some(1)
    /\ DOMAIN fstate = {1, 2}
    /\ fstate[1] = "raised"
    /\ fstate[2] = "returned"
    /\ yielded = << 1 >>

====
